---- MODULE Spec2Model ----
(***************************************************************************)
(* A model of qaac's FLAC streaming decode adapter (src/flacsrc.cpp) and   *)
(* of its MP4 sinks and cookie parsers (src/unnamed/part_000).             *)
(*                                                                         *)
(* The FLAC decoder library and the MP4 container library are external:    *)
(* they are modelled as an environment that may do anything their call     *)
(* interface allows (any callbacks, any return value, any raised error).   *)
(***************************************************************************)
EXTENDS Integers, Sequences, FiniteSets, TLC

(***************************************************************************)
(* Bounds of the model.                                                    *)
(***************************************************************************)
MaxTotal == 2
MaxBlock == 2
MaxReq == 2
MaxBuf == 2
MaxCallbacks == 2
MaxMeta == 2

Min(a, b) == IF a < b THEN a ELSE b

(***************************************************************************)
(*                      FLACSource  (src/flacsrc.cpp)                      *)
(***************************************************************************)
VARIABLES
    flac_pc,        \* position of the FLACSource object / of the running call
    ctor_err,       \* the error the constructor threw ("none" if it did not)
    m_giveup,       \* FLACSource::m_giveup
    m_asbd,         \* FLACSource::m_asbd (sample rate, channels, bits)
    m_duration,     \* the range set by setRange(); -1 while none was set
    m_samples_read, \* the count kept by addSamplesRead()
    m_buffer,       \* m_buffer.count(): decoded samples not yet read
    dec_state,      \* stream_decoder_get_state()
    write_status,   \* what writeCallback returned last in the running library call
    ncallbacks,     \* callbacks fired in the running library call
    nsamples,       \* readSamples: the adjusted request
    rest,           \* readSamples: samples still to deliver
    si_seen,        \* whether the decoder delivered a stream info while opening
    si_bad,         \* whether one it delivered failed validate()
    last_frame,     \* the last frame handed to writeCallback and what became of it
    rs              \* the running or last call: what was asked and how it ended

flacVars == <<flac_pc, ctor_err, m_giveup, m_asbd, m_duration, m_samples_read,
              m_buffer, dec_state, write_status, ncallbacks, nsamples, rest,
              si_seen, si_bad, last_frame, rs>>

\* The cookie parsers and the sinks (src/unnamed/part_000).
VARIABLES
    cookie,         \* the magic cookie handed to a parser or a sink constructor
    aac,            \* parseMagicCookieAAC: how it ended and decSpecificConfig
    dsc,            \* parseDecSpecificConfig: index, rate and channel config
    adts,           \* ADTSSink: m_sample_rate_index and m_channel_config
    sink_pc,        \* position of the MP4Sink object
    m_mp4file,      \* the container store behind MP4SinkBase::m_mp4file
    mp4_err,        \* the store call that raised an error, if one did
    alacsink,       \* ALACSink: how construction ended, and the alac and chan
                    \* vectors parseMagicCookieALAC filled
    tag_value,      \* the value string handed to writeTrackTag / writeDiskTag
    tag_calls,      \* which of writeTrackTag / writeDiskTag were called with it
    m_tags,         \* MP4SinkBase::m_tags, the tag dictionary
    m_chapters,     \* MP4SinkBase::m_chapters, (name, seconds) in order
    m_artworks,     \* MP4SinkBase::m_artworks
    m_gapless_mode, \* MP4Sink::m_gapless_mode, bit 1 MODE_ITUNSMPB, bit 2 MODE_EDTS
    m_edit_start,   \* MP4SinkBase::m_edit_start
    m_edit_duration,\* MP4SinkBase::m_edit_duration
    m_closed,       \* MP4SinkBase::m_closed
    ntagwrites,     \* how many writeTags calls returned
    close_log,      \* how many close() calls were made, and how many times
                    \* they invoked the store's Close
    first_write     \* the store as the first writeTags call left it

cookieVars == <<cookie, aac, dsc, adts>>
sinkVars == <<sink_pc, m_mp4file, mp4_err>>
alacVars == <<alacsink>>
tagVars == <<tag_value, tag_calls, m_tags, m_chapters, m_artworks, m_gapless_mode,
             m_edit_start, m_edit_duration, m_closed, ntagwrites, first_write,
             close_log>>

vars == <<flacVars, cookieVars, sinkVars, alacVars, tagVars>>

\* What the decoder can put into a STREAMINFO block or a frame header.
SIRates == {0, 44100}
SIChannels == {0, 1, 8, 9}
SIBits == {7, 8, 32, 33}
StreamInfos == [sample_rate : SIRates, channels : SIChannels,
                bits_per_sample : SIBits, total_samples : 0..MaxTotal]
FrameHeaders == [sample_rate : {44100, 48000}, channels : {1, 8},
                 bits_per_sample : {8, 32}, blocksize : 1..MaxBlock]

\* FLAC__StreamDecoderState, as far as the code tells the states apart.
DecStates == {"search_for_frame_sync", "end_of_stream", "aborted"}

\* What the first 33 bytes of the file can be.
FileKinds == {"fLaC", "ID3+fLaC", "OggS+FLAC", "OggS", "other", "short"}

\* m_asbd is not initialised by the constructor: whatever the memory held.
NoASBD == [mSampleRate |-> 0, mChannelsPerFrame |-> 0, mBitsPerChannel |-> 0]
UninitASBD == {NoASBD,
               [mSampleRate |-> 0, mChannelsPerFrame |-> 9, mBitsPerChannel |-> 33]}

NoFrame == [seen |-> FALSE, match |-> TRUE, status |-> "continue", appended |-> 0]
NoCall == [op |-> "none", status |-> "none", n |-> 0, adj |-> 0, value |-> 0,
           err |-> "none", giveup0 |-> FALSE, mismatch |-> FALSE]

\* flac::validate: TRUE when no want() throws.
validate(si) ==
    /\ si.sample_rate > 0
    /\ si.channels > 0 /\ si.channels < 9
    /\ si.bits_per_sample >= 8 /\ si.bits_per_sample <= 32

\* cautil::buildASBDForPCM2, as far as FLACSource reads the result.
buildASBDForPCM2(rate, channels, bits) ==
    [mSampleRate |-> rate, mChannelsPerFrame |-> channels, mBitsPerChannel |-> bits]

\* PartialSource::adjustSamplesToRead: the request cut to what the range leaves.
adjustSamplesToRead(n) ==
    IF m_duration = -1 THEN n ELSE Min(n, m_duration - m_samples_read)

HeaderMismatch_ChannelsOnly(h) ==
    h.channels # m_asbd.mChannelsPerFrame

\* writeCallback's test of the frame header against the stream-wide format.
HeaderMismatch(h) ==
    \/ h.channels # m_asbd.mChannelsPerFrame
    \/ h.sample_rate # m_asbd.mSampleRate
    \/ h.bits_per_sample # m_asbd.mBitsPerChannel

ReadLoopNext_BreakUnlessDecoding(r, giveup, state) ==
    IF r = 0 THEN "return"
    ELSE IF giveup THEN "throw"
    ELSE IF state # "search_for_frame_sync" THEN "break"
    ELSE "process_single"

\* readSamples, after the buffer was drained and `r` samples are still owed:
\* what the loop does next.
ReadLoopNext(r, giveup, state) ==
    IF r = 0 THEN "return"
    ELSE IF giveup THEN "throw"
    ELSE IF state = "end_of_stream" THEN "break"
    ELSE "process_single"

\* The members the constructor's initialiser list and the base classes set.
FlacFresh ==
    /\ flac_pc = "new"
    /\ ctor_err = "none"
    /\ m_giveup = FALSE
    /\ m_duration = -1
    /\ m_samples_read = 0
    /\ m_buffer = 0
    /\ dec_state = "search_for_frame_sync"
    /\ write_status = "continue"
    /\ ncallbacks = 0
    /\ nsamples = 0
    /\ rest = 0
    /\ si_seen = FALSE
    /\ si_bad = FALSE
    /\ last_frame = NoFrame
    /\ rs = NoCall

\* FLACSource::FLACSource up to the call of process_until_end_of_metadata.
FLACSource_Begin(kind, initOk) ==
    /\ flac_pc = "new"
    /\ m_giveup' = FALSE
    /\ IF kind = "short"
       THEN flac_pc' = "failed" /\ ctor_err' = "eof"
       ELSE IF kind \in {"OggS", "other"}
       THEN flac_pc' = "failed" /\ ctor_err' = "Not a FLAC file"
       ELSE IF ~initOk
       THEN flac_pc' = "failed" /\ ctor_err' = "init_stream"
       ELSE flac_pc' = "metadata" /\ ctor_err' = "none"
    /\ UNCHANGED <<m_asbd, m_duration, m_samples_read, m_buffer, dec_state,
                   write_status, ncallbacks, nsamples, rest, si_seen, si_bad,
                   last_frame, rs>>

\* metadataCallback with a STREAMINFO block: handleStreamInfo.
MetadataCallback(si) ==
    /\ flac_pc = "metadata"
    /\ ncallbacks < MaxMeta
    /\ ncallbacks' = ncallbacks + 1
    /\ si_seen' = TRUE
    /\ si_bad' = (si_bad \/ ~validate(si))
    /\ IF validate(si)
       THEN /\ m_duration' = si.total_samples
            /\ m_asbd' = buildASBDForPCM2(si.sample_rate, si.channels,
                                          si.bits_per_sample)
            /\ UNCHANGED m_giveup
       ELSE /\ m_giveup' = TRUE
            /\ UNCHANGED <<m_duration, m_asbd>>
    /\ UNCHANGED <<flac_pc, ctor_err, m_samples_read, m_buffer, dec_state,
                   write_status, nsamples, rest, last_frame, rs>>

\* errorCallback, fired by the decoder inside any of its calls.
ErrorCallback ==
    /\ flac_pc \in {"metadata", "decoding", "seeking"}
    /\ ncallbacks < MaxCallbacks
    /\ write_status = "continue"
    /\ ncallbacks' = ncallbacks + 1
    /\ m_giveup' = TRUE
    /\ UNCHANGED <<flac_pc, ctor_err, m_asbd, m_duration, m_samples_read,
                   m_buffer, dec_state, write_status, nsamples, rest, si_seen, si_bad,
                   last_frame, rs>>

\* process_until_end_of_metadata returns `ok`; the rest of the constructor.
FLACSource_Finish(ok) ==
    /\ flac_pc = "metadata"
    /\ ncallbacks' = 0
    /\ IF ~ok
       THEN flac_pc' = "failed" /\ ctor_err' = "process_until_end_of_metadata"
       ELSE IF m_giveup \/ m_asbd.mBitsPerChannel = 0
       THEN flac_pc' = "failed" /\ ctor_err' = "Sorry, unacceptable FLAC format"
       ELSE flac_pc' = "idle" /\ ctor_err' = "none"
    /\ UNCHANGED <<m_giveup, m_asbd, m_duration, m_samples_read, m_buffer,
                   dec_state, write_status, nsamples, rest, si_seen, si_bad,
                   last_frame, rs>>

\* readSamples up to its loop: the request is adjusted, and 0 ends the call.
ReadSamples_Call(n) ==
    /\ flac_pc = "idle"
    /\ LET adj == adjustSamplesToRead(n)
           call == [op |-> "read", status |-> "running", n |-> n, adj |-> adj,
                    value |-> 0, err |-> "none", giveup0 |-> m_giveup,
                    mismatch |-> FALSE]
       IN  /\ nsamples' = adj
           /\ rest' = adj
           /\ IF adj = 0
              THEN /\ rs' = [call EXCEPT !.status = "returned"]
                   /\ UNCHANGED flac_pc
              ELSE /\ rs' = call
                   /\ flac_pc' = "read_loop"
    /\ last_frame' = NoFrame
    /\ UNCHANGED <<ctor_err, m_giveup, m_asbd, m_duration, m_samples_read,
                   m_buffer, dec_state, write_status, ncallbacks, si_seen, si_bad>>

\* One turn of readSamples' loop, and the return that follows it.
ReadSamples_Loop ==
    /\ flac_pc = "read_loop"
    /\ LET count == Min(m_buffer, rest)
           r == rest - count
           next == ReadLoopNext(r, m_giveup, dec_state)
       IN  /\ m_buffer' = m_buffer - count
           /\ rest' = r
           /\ CASE next = "process_single" ->
                     /\ flac_pc' = "decoding"
                     /\ write_status' = "continue"
                     /\ UNCHANGED <<rs, m_samples_read>>
                [] next = "throw" ->
                     /\ flac_pc' = "idle"
                     /\ rs' = [rs EXCEPT !.status = "threw",
                                         !.err = "FLAC decoder error"]
                     /\ UNCHANGED <<write_status, m_samples_read>>
                [] OTHER ->
                     /\ flac_pc' = "idle"
                     /\ rs' = [rs EXCEPT !.status = "returned",
                                         !.value = nsamples - r]
                     /\ m_samples_read' = m_samples_read + (nsamples - r)
                     /\ UNCHANGED write_status
    /\ UNCHANGED <<ctor_err, m_giveup, m_asbd, m_duration, dec_state,
                   ncallbacks, nsamples, si_seen, si_bad, last_frame>>

\* writeCallback: the decoder hands over one decoded frame.
WriteCallback(h) ==
    /\ flac_pc \in {"decoding", "seeking"}
    /\ ncallbacks < MaxCallbacks
    /\ write_status = "continue"
    /\ m_buffer + h.blocksize <= MaxBuf
    /\ ncallbacks' = ncallbacks + 1
    /\ IF HeaderMismatch(h)
       THEN /\ write_status' = "abort"
            /\ UNCHANGED m_buffer
       ELSE /\ write_status' = "continue"
            /\ m_buffer' = m_buffer + h.blocksize
    /\ last_frame' = [seen |-> TRUE,
                      match |-> /\ h.channels = m_asbd.mChannelsPerFrame
                                /\ h.sample_rate = m_asbd.mSampleRate
                                /\ h.bits_per_sample = m_asbd.mBitsPerChannel,
                      status |-> write_status',
                      appended |-> m_buffer' - m_buffer]
    /\ rs' = [rs EXCEPT !.mismatch = @ \/ ~last_frame'.match]
    /\ UNCHANGED <<flac_pc, ctor_err, m_giveup, m_asbd, m_duration,
                   m_samples_read, dec_state, nsamples, rest, si_seen, si_bad>>

\* stream_decoder_process_single returns `ok`, leaving the decoder in `state`:
\* a write callback that asked for abort makes the call fail.
ProcessSingle_Return(ok, state) ==
    /\ flac_pc = "decoding"
    /\ write_status = "abort" => ~ok
    /\ dec_state' = state
    /\ ncallbacks' = 0
    /\ write_status' = "continue"
    /\ IF ok
       THEN /\ flac_pc' = "read_loop"
            /\ UNCHANGED rs
       ELSE /\ flac_pc' = "idle"
            /\ rs' = [rs EXCEPT !.status = "threw", !.err = "process_single"]
    /\ last_frame' = NoFrame
    /\ UNCHANGED <<ctor_err, m_giveup, m_asbd, m_duration, m_samples_read,
                   m_buffer, nsamples, rest, si_seen, si_bad>>

\* skipSamples: stream_decoder_seek_absolute is called.
SkipSamples_Call(count) ==
    /\ flac_pc = "idle"
    /\ flac_pc' = "seeking"
    /\ write_status' = "continue"
    /\ last_frame' = NoFrame
    /\ rs' = [op |-> "skip", status |-> "running", n |-> 0, adj |-> 0,
              value |-> 0, err |-> "none", giveup0 |-> m_giveup,
              mismatch |-> FALSE]
    /\ UNCHANGED <<ctor_err, m_giveup, m_asbd, m_duration, m_samples_read,
                   m_buffer, dec_state, ncallbacks, nsamples, rest, si_seen, si_bad>>

\* stream_decoder_seek_absolute returns `ok`, leaving the decoder in `state`.
SkipSamples_Return(ok, state) ==
    /\ flac_pc = "seeking"
    /\ write_status = "abort" => ~ok
    /\ dec_state' = state
    /\ ncallbacks' = 0
    /\ write_status' = "continue"
    /\ flac_pc' = "idle"
    /\ rs' = IF ok THEN [rs EXCEPT !.status = "returned"]
                   ELSE [rs EXCEPT !.status = "threw", !.err = "seek_absolute"]
    /\ last_frame' = NoFrame
    /\ UNCHANGED <<ctor_err, m_giveup, m_asbd, m_duration, m_samples_read,
                   m_buffer, nsamples, rest, si_seen, si_bad>>

(***************************************************************************)
(*           The AAC magic cookie  (src/unnamed/part_000, 20-112)          *)
(***************************************************************************)
\* A cookie is a sequence of bytes; a cursor p counts the bytes before it, so
\* that *p is cookie[p + 1] and `end` is Len(cookie).

\* size is a uint32_t: size << 7 keeps the low 25 bits of size.
TwoTo25 == 33554432

\* The descriptors the input cookies are built from: an ES descriptor, two
\* decoder config descriptors (the second with a payload that reads like a
\* tag-5 header), decoder-specific configs (size in one byte, size with a
\* continuation byte, empty), and descriptors of other tags.
Pieces ==
    { <<3, 25, 0, 0, 0>>,
      <<4, 17, 64, 21, 0, 0, 0, 0, 1, 244, 0, 0, 1, 244, 0>>,
      <<4, 2, 5, 1, 170, 0, 0, 0, 0, 0, 0, 0, 0, 0, 0>>,
      <<5, 2, 18, 16>>,
      <<5, 128, 2, 17, 144>>,
      <<5, 0>>,
      <<6, 1, 2>>,
      <<6, 128, 2, 5, 1>>,
      <<7, 129, 0>>,
      <<128, 3, 5, 1, 170>> }

MaxPieces == 3

RECURSIVE Flatten(_)
Flatten(ps) == IF ps = <<>> THEN <<>> ELSE Head(ps) \o Flatten(Tail(ps))

\* Every prefix of every concatenation of at most n descriptors.
CookieInputs(n) ==
    UNION { { SubSeq(Flatten(q), 1, len) : len \in 0..Len(Flatten(q)) } :
            q \in UNION { [1..k -> Pieces] : k \in 0..n } }

\* getDescripterHeader's inner loop: the size, 7 bits a byte, in a uint32_t.
RECURSIVE ReadSize(_, _, _)
ReadSize(c, p, size) ==
    IF p < Len(c)
    THEN LET n == c[p + 1]
             sz == (size % TwoTo25) * 128 + (n % 128)
         IN  IF n < 128 THEN [ok |-> TRUE, p |-> p + 1, size |-> sz]
                        ELSE ReadSize(c, p + 1, sz)
    ELSE [ok |-> FALSE, p |-> p, size |-> size]

\* getDescripterHeader(&p, end, &tag, &size): tag is left unset (-1 here)
\* when not even the tag byte can be read.
getDescripterHeader(c, p) ==
    IF p < Len(c)
    THEN LET r == ReadSize(c, p + 1, 0)
         IN  [ok |-> r.ok, p |-> r.p, tag |-> c[p + 1], size |-> r.size]
    ELSE [ok |-> FALSE, p |-> p, tag |-> -1, size |-> 0]

\* What parseMagicCookieAAC's switch adds to the cursor after a header.
SkipAfter(tag, size) ==
    CASE tag = 3 -> 3
      [] tag = 4 -> 13
      [] OTHER -> size

\* parseMagicCookieAAC's loop from cursor p: it ends at a tag-5 header
\* ("found", with p behind the header) or when no header can be read ("error").
RECURSIVE WalkDescriptors(_, _)
WalkDescriptors(c, p) ==
    LET h == getDescripterHeader(c, p)
    IN  IF ~h.ok THEN [status |-> "error", p |-> h.p, size |-> 0]
        ELSE IF h.tag = 5 THEN [status |-> "found", p |-> h.p, size |-> h.size]
        ELSE WalkDescriptors(c, h.p + SkipAfter(h.tag, h.size))

NoAAC == [status |-> "none", config |-> <<>>, size |-> 0, past_end |-> 0]

\* The ways parseMagicCookieAAC(c) can end.  "error" is the thrown format
\* error.  At a tag-5 header, memcpy copies `size` bytes from the cursor: when
\* fewer are left in the cookie it reads past the end of the vector, which is
\* undefined: the process may die ("crash"), or the copy goes through and
\* decSpecificConfig holds `size` bytes of which the last `past_end` are
\* whatever followed the cookie in memory (config holds the ones before).
parseMagicCookieAAC(c) ==
    LET w == WalkDescriptors(c, 0)
        left == Len(c) - w.p
        got == [status |-> "ok", config |-> SubSeq(c, w.p + 1, w.p + Min(w.size, left)),
                size |-> w.size,
                past_end |-> IF w.size > left THEN w.size - left ELSE 0]
    IN  IF w.status = "error"
        THEN { [status |-> "error", config |-> <<>>, size |-> 0, past_end |-> 0] }
        ELSE IF w.size <= left THEN { got }
        ELSE { got, [status |-> "crash", config |-> <<>>, size |-> w.size,
                     past_end |-> w.size - left] }

\* parseDecSpecificConfig's table of sampling rates.
tab == <<96000, 88200, 64000, 48000, 44100, 32000, 24000, 22050,
         16000, 12000, 11025, 8000, 7350, 0, 0, 0>>

\* BitStream: bit i of the buffer (0 is the top bit of the first byte) and
\* get(n), the next n bits from bit `pos` on, most significant first.
Bit(config, i) == (config[(i \div 8) + 1] \div (2 ^ (7 - (i % 8)))) % 2

RECURSIVE get(_, _, _)
get(config, pos, n) ==
    IF n = 0 THEN 0 ELSE 2 * get(config, pos, n - 1) + Bit(config, pos + n - 1)

NoDSC == [status |-> "none", index |-> 0, rate |-> 0, channel_config |-> 0]
UndefinedDSC == [NoDSC EXCEPT !.status = "undefined"]

parseDecSpecificConfig_TabOneOff(config) ==
    LET bits == 8 * Len(config)
        index == get(config, 5, 4)
        explicit == index = 15
        chpos == IF explicit THEN 33 ELSE 9
    IN  IF bits < 9 \/ bits < chpos + 4 THEN UndefinedDSC
        ELSE [status |-> "ok", index |-> index,
              rate |-> IF explicit THEN get(config, 9, 24)
                       ELSE tab[IF index = 0 THEN 1 ELSE index],
              channel_config |-> get(config, chpos, 4)]

\* parseDecSpecificConfig: 5 bits of object type, 4 of rate index, 24 of rate
\* when the index is 15, 4 of channel configuration.  A config too short for
\* the bits read makes BitStream read past its buffer: "undefined".
parseDecSpecificConfig(config) ==
    LET bits == 8 * Len(config)
        index == get(config, 5, 4)
        explicit == index = 15
        chpos == IF explicit THEN 33 ELSE 9
    IN  IF bits < 9 \/ bits < chpos + 4 THEN UndefinedDSC
        ELSE [status |-> "ok", index |-> index,
              rate |-> IF explicit THEN get(config, 9, 24) ELSE tab[index + 1],
              channel_config |-> get(config, chpos, 4)]

\* The decoder-specific configs the sinks are built from: two bytes (object
\* type 2, 5 or 31 with every rate index, a choice of second bytes), and five
\* bytes for the configs of rate index 15.
ConfigByte0 == { 8 * o + k : o \in {2, 5, 31}, k \in 0..7 }
ConfigByte1 == {0, 8, 16, 120, 128, 136, 144, 172, 255}
ConfigBytes == {0, 1, 86, 128, 255}
ConfigInputs ==
    { <<b0, b1>> : b0 \in ConfigByte0, b1 \in ConfigByte1 }
    \cup { <<8 * o + 7, b1, b2, b3, b4>> :
             o \in {2, 5, 31}, b1 \in {128, 136, 172, 255},
             b2 \in ConfigBytes, b3 \in ConfigBytes, b4 \in ConfigBytes }

\* An esds cookie as QuickTime gives it, around decoder-specific config cfg.
EsdsCookie(cfg) ==
    <<3, 25, 0, 0, 0>> \o <<4, 17, 64, 21, 0, 0, 0, 0, 1, 244, 0, 0, 1, 244, 0>>
    \o <<5, Len(cfg)>> \o cfg \o <<6, 1, 2>>

ConfigCookies == { EsdsCookie(cfg) : cfg \in ConfigInputs }

\* What parseDecSpecificConfig gives for the outcome `a` of parseMagicCookieAAC:
\* bytes copied from past the cookie's end are not known.
DecodeConfig(a) ==
    LET d == parseDecSpecificConfig(a.config)
    IN  IF a.past_end > 0 /\ d.status = "undefined" THEN UndefinedDSC ELSE d

NoADTS == [status |-> "none", m_sample_rate_index |-> 0, m_channel_config |-> 0]

CookieUnused ==
    /\ cookie = <<>>
    /\ aac = NoAAC
    /\ dsc = NoDSC
    /\ adts = NoADTS

\* ADTSSink::init.
ADTSSink_init ==
    /\ adts.status = "none"
    /\ \E a \in parseMagicCookieAAC(cookie) :
         /\ aac' = a
         /\ IF a.status # "ok"
            THEN /\ adts' = [adts EXCEPT !.status = a.status]
                 /\ UNCHANGED dsc
            ELSE LET d == DecodeConfig(a)
                 IN  /\ dsc' = d
                     /\ adts' = [status |-> d.status,
                                 m_sample_rate_index |-> d.index,
                                 m_channel_config |-> d.channel_config]
    /\ UNCHANGED cookie

(***************************************************************************)
(*        The container store and MP4Sink  (src/unnamed/part_000)          *)
(***************************************************************************)
\* The container store as the sinks use it: a Set call overwrites, an Add
\* call appends (so does SetMetadataArtwork, which writeTags calls once for
\* each artwork), and any call may raise an error instead of taking effect.
\* A call is its name, its integer argument n and its other arguments bytes.
NewFile ==
    [created |-> FALSE, timeScale |-> -1, tracks |-> <<>>, channels |-> 0,
     stsdTimeScale17 |-> -1, esConfig |-> <<>>, alacTracks |-> <<>>,
     nframes |-> 0, duration |-> 0,
     chapterTracks |-> 0, chapters |-> <<>>, neroChapters |-> <<>>,
     edits |-> <<>>, sampleGroups |-> <<>>,
     meta |-> <<>>, metaTrack |-> <<>>, metaDisk |-> <<>>, artworks |-> <<>>,
     closes |-> 0]

\* The function g with g[key] = value and g[k] = f[k] for every other key of f.
Put(f, key, value) ==
    [k \in DOMAIN f \cup {key} |-> IF k = key THEN value ELSE f[k]]

NoErr == [op |-> "none", n |-> 0]
Call(op, n, bytes) == [op |-> op, n |-> n, bytes |-> bytes]

\* The effect of one store call that does not raise.
Apply(f, c) ==
    CASE c.op = "Create" -> [f EXCEPT !.created = TRUE]
      [] c.op = "SetTimeScale" -> [f EXCEPT !.timeScale = c.n]
      [] c.op = "AddAudioTrack" -> [f EXCEPT !.tracks = Append(@, c.n)]
      [] c.op = "SetIntegerProperty(channels)" -> [f EXCEPT !.channels = c.n]
      [] c.op = "SetIntegerProperty(timeScale)" -> [f EXCEPT !.stsdTimeScale17 = c.n]
      [] c.op = "SetTrackESConfiguration" -> [f EXCEPT !.esConfig = c.bytes]
      [] c.op = "AddAlacAudioTrack" -> [f EXCEPT !.alacTracks = Append(@, c.bytes)]
      [] c.op = "AddChapterTextTrack" -> [f EXCEPT !.chapterTracks = @ + 1]
      [] c.op = "AddChapter" ->
            [f EXCEPT !.chapters = Append(@, [name |-> c.bytes, duration |-> c.n])]
      [] c.op = "AddNeroChapter" ->
            [f EXCEPT !.neroChapters = Append(@, [at |-> c.bytes, secs |-> c.n])]
      [] c.op = "AddTrackEdit" ->
            [f EXCEPT !.edits = Append(@, [start |-> 0, duration |-> 0])]
      [] c.op = "SetTrackEditMediaStart" ->
            [f EXCEPT !.edits[Len(f.edits)].start = c.n]
      [] c.op = "SetTrackEditDuration" ->
            [f EXCEPT !.edits[Len(f.edits)].duration = c.n]
      [] c.op = "CreateAudioSampleGroupDescription" ->
            [f EXCEPT !.sampleGroups = Append(@, c.n)]
      [] c.op = "SetMetadataString" ->
            [f EXCEPT !.meta = Put(@, c.bytes[1], c.bytes[2])]
      [] c.op = "SetMetadataFreeForm" ->
            [f EXCEPT !.meta = Put(@, c.bytes[1], c.bytes[2])]
      [] c.op = "SetMetadataTrack" -> [f EXCEPT !.metaTrack = c.bytes]
      [] c.op = "SetMetadataDisk" -> [f EXCEPT !.metaDisk = c.bytes]
      [] c.op = "SetMetadataArtwork" -> [f EXCEPT !.artworks = Append(@, c.bytes)]
      [] c.op = "Close" -> [f EXCEPT !.closes = @ + 1]

\* The store after the calls `cs` made in order, the throwAt-th of which
\* raises (none does when throwAt = 0), and the call that raised.
RECURSIVE ApplyAll(_, _, _)
ApplyAll(f, cs, k) ==
    IF k = 0 THEN f ELSE Apply(ApplyAll(f, cs, k - 1), cs[k])

Run(f, cs, throwAt) ==
    IF throwAt = 0
    THEN [file |-> ApplyAll(f, cs, Len(cs)), err |-> NoErr]
    ELSE [file |-> ApplyAll(f, cs, throwAt - 1),
          err |-> [op |-> cs[throwAt].op, n |-> cs[throwAt].n]]

\* The store calls of MP4Sink's constructor after parseDecSpecificConfig.
\* The mp4a timeScale set for 'aach' is rate << 17 in 64 bits; the store
\* keeps it here as stsdTimeScale17, the value divided by 2^17.
MP4SinkCalls(d, config, fcc) ==
    <<Call("SetTimeScale", d.rate, <<>>),
      Call("AddAudioTrack", d.rate, <<>>),
      Call("SetIntegerProperty(channels)",
           IF d.channel_config = 1 THEN 1 ELSE 2, <<>>)>>
    \o (IF fcc = "aach"
        THEN <<Call("SetIntegerProperty(timeScale)", d.rate, <<>>)>>
        ELSE <<>>)
    \o <<Call("SetTrackESConfiguration", 0, config)>>

SinkUnused ==
    /\ sink_pc = "new"
    /\ m_mp4file = NewFile
    /\ mp4_err = NoErr

\* MP4Sink::MP4Sink (with MP4SinkBase::MP4SinkBase): createOk tells whether
\* the store's Create went through, throwAt which later store call raises.
MP4Sink_MP4Sink(fcc, createOk, throwAt) ==
    /\ sink_pc = "new"
    /\ IF ~createOk
       THEN /\ sink_pc' = "failed"
            /\ mp4_err' = [op |-> "Create", n |-> 0]
            /\ UNCHANGED <<m_mp4file, aac, dsc>>
       ELSE \E a \in parseMagicCookieAAC(cookie) :
            /\ aac' = a
            /\ IF a.status # "ok"
               THEN /\ sink_pc' = a.status
                    /\ m_mp4file' = Apply(m_mp4file, Call("Create", 0, <<>>))
                    /\ UNCHANGED <<mp4_err, dsc>>
               ELSE LET d == DecodeConfig(a)
                        cs == <<Call("Create", 0, <<>>)>>
                              \o (IF d.status = "ok"
                                  THEN MP4SinkCalls(d, a.config, fcc) ELSE <<>>)
                        r == Run(m_mp4file, cs, throwAt)
                    IN  /\ dsc' = d
                        /\ throwAt \in {0} \cup 2..Len(cs)
                        /\ m_mp4file' = r.file
                        /\ mp4_err' = r.err
                        /\ sink_pc' = IF d.status # "ok" THEN "undefined"
                                      ELSE IF throwAt # 0 THEN "failed"
                                      ELSE "open"
    /\ UNCHANGED <<cookie, adts>>

(***************************************************************************)
(*     The ALAC magic cookie and ALACSink  (src/unnamed/part_000)          *)
(***************************************************************************)
\* The byte strings "frmaalac" and "chan" the splitter looks for.
Marker_frmaalac == <<102, 114, 109, 97, 97, 108, 97, 99>>
Marker_chan == <<99, 104, 97, 110>>

\* The ways memcmp(&c[0] + at, m, Len(m)) == 0 can come out.  When the
\* compared range runs past the end of the vector the read is undefined: the
\* process may die ("crash"), and the bytes past the end are unknown, so the
\* comparison can hold whenever the bytes inside the vector agree with m.
MemEq(c, at, m) ==
    IF at + Len(m) <= Len(c)
    THEN { IF SubSeq(c, at + 1, at + Len(m)) = m THEN "equal" ELSE "differ" }
    ELSE {"differ", "crash"}
         \cup (IF \A i \in 1..Len(m) : at + i <= Len(c) => c[at + i] = m[i]
               THEN {"equal"} ELSE {})

ChanMarkerAt_Start(cp) == cp

\* Where, from the cursor behind the 24 bytes of config, the "chan" marker is
\* looked for.
ChanMarkerAt(cp) == cp + 4

\* The ways parseMagicCookieALAC(c) can end, with the alac and chan vectors.
parseMagicCookieALAC(c) ==
    { IF frma = "crash"
      THEN [status |-> "crash", alac |-> <<>>, chan |-> <<>>]
      ELSE LET cp == IF frma = "equal" THEN 24 ELSE 0
               has == Len(c) - cp >= 24
               cp2 == cp + 24
               m == ChanMarkerAt(cp2)
           IN  [status |-> "ok",
                alac |-> IF has THEN SubSeq(c, cp + 1, cp + 24) ELSE <<>>,
                chan |-> IF /\ has
                            /\ Len(c) - cp2 >= 24
                            /\ SubSeq(c, m + 1, m + 4) = Marker_chan
                         THEN SubSeq(c, cp2 + 13, cp2 + 24) ELSE <<>>]
      : frma \in MemEq(c, 4, Marker_frmaalac) }

\* The cookies ALACSink is built from: every byte tells its position, with
\* the markers laid over it at the offsets the splitter could look at.
ALACBase(len) == [i \in 1..len |-> 130 + i]
Overlay(c, at, m) ==
    [i \in 1..Len(c) |-> IF i > at /\ i <= at + Len(m) THEN m[i - at] ELSE c[i]]
ALACLens == {0, 8, 12, 24, 36, 47, 48, 60, 72}
ALACChanAts == {24, 28, 48, 52}
ALACInputs ==
    { ALACBase(len) : len \in ALACLens }
    \cup { Overlay(ALACBase(len), 4, Marker_frmaalac) : len \in ALACLens }
    \cup { Overlay(ALACBase(len), at, Marker_chan) :
             len \in ALACLens, at \in ALACChanAts }
    \cup { Overlay(Overlay(ALACBase(len), 4, Marker_frmaalac), at, Marker_chan) :
             len \in ALACLens, at \in ALACChanAts }

NoALAC == [status |-> "none", alac |-> <<>>, chan |-> <<>>]

AlacUnused == alacsink = NoALAC

\* ALACSink::ALACSink (with MP4SinkBase::MP4SinkBase): createOk and addOk tell
\* whether the store's Create and AddAlacAudioTrack went through.
ALACSink_ALACSink(createOk, addOk) ==
    /\ alacsink.status = "none"
    /\ IF ~createOk
       THEN /\ alacsink' = [alacsink EXCEPT !.status = "failed"]
            /\ mp4_err' = [op |-> "Create", n |-> 0]
            /\ UNCHANGED m_mp4file
       ELSE \E r \in parseMagicCookieALAC(cookie) :
            LET f == Apply(m_mp4file, Call("Create", 0, <<>>))
                bad == IF r.status = "crash" THEN "crash"
                       ELSE IF Len(r.alac) # 24 THEN "Invalid ALACSpecificConfig!"
                       ELSE IF Len(r.chan) # 0 /\ Len(r.chan) # 12
                            THEN "Invalid ALACChannelLayout!"
                       ELSE "no"
            IN  IF bad # "no"
                THEN /\ alacsink' = [r EXCEPT !.status = bad]
                     /\ m_mp4file' = f
                     /\ UNCHANGED mp4_err
                ELSE IF addOk
                THEN /\ alacsink' = [r EXCEPT !.status = "open"]
                     /\ m_mp4file' =
                          Apply(f, Call("AddAlacAudioTrack", 0,
                                        [alac |-> r.alac, chan |-> r.chan]))
                     /\ UNCHANGED mp4_err
                ELSE /\ alacsink' = [r EXCEPT !.status = "failed"]
                     /\ m_mp4file' = f
                     /\ mp4_err' = [op |-> "AddAlacAudioTrack", n |-> 0]
    /\ UNCHANGED <<cookie, sink_pc>>

(***************************************************************************)
(*       Tag writing: MP4SinkBase and MP4Sink  (src/unnamed/part_000)      *)
(***************************************************************************)
\* Strings are sequences of one-character strings.
DigitChars == <<"0", "1", "2", "3", "4", "5", "6", "7", "8", "9">>
IsDigit(ch) == \E d \in 1..10 : DigitChars[d] = ch
DigitOf(ch) == (CHOOSE d \in 1..10 : DigitChars[d] = ch) - 1

\* sscanf's white-space skip before a %d: the first index at or behind i
\* that holds no blank.
RECURSIVE SkipSpace(_, _)
SkipSpace(s, i) ==
    IF i <= Len(s) /\ s[i] = " " THEN SkipSpace(s, i + 1) ELSE i

\* The digits from index i on, read into acc.
RECURSIVE ScanDigits(_, _, _)
ScanDigits(s, i, acc) ==
    IF i <= Len(s) /\ IsDigit(s[i])
    THEN ScanDigits(s, i + 1, 10 * acc + DigitOf(s[i]))
    ELSE [val |-> acc, next |-> i]

\* sscanf's %d from index i: blanks, an optional sign, at least one digit.
ScanInt(s, i) ==
    LET j == SkipSpace(s, i)
        signed == j <= Len(s) /\ s[j] \in {"+", "-"}
        k == IF signed THEN j + 1 ELSE j
        d == ScanDigits(s, k, 0)
    IN  [ok |-> d.next > k,
         val |-> IF signed /\ s[j] = "-" THEN 0 - d.val ELSE d.val,
         next |-> d.next]

\* sscanf(value, "%d/%d", &n, &total): how many of the two were assigned
\* (0 stands for EOF too) and the values assigned.
sscanf_d_slash_d(s) ==
    LET a == ScanInt(s, 1)
        b == ScanInt(s, a.next + 1)
    IN  IF ~a.ok THEN [count |-> 0, n |-> 0, total |-> 0]
        ELSE IF a.next <= Len(s) /\ s[a.next] = "/" /\ b.ok
        THEN [count |-> 2, n |-> a.val, total |-> b.val]
        ELSE [count |-> 1, n |-> a.val, total |-> 0]

ParseFraction_BothRequired(value) ==
    LET r == sscanf_d_slash_d(value)
    IN  [write |-> r.count > 1, n |-> r.n, total |-> r.total]

\* writeTrackTag and writeDiskTag up to the store call:
\* int n, total = 0; if (sscanf(value, "%d/%d", &n, &total) > 0) Set..(n, total)
ParseFraction(value) ==
    LET r == sscanf_d_slash_d(value)
    IN  [write |-> r.count > 0, n |-> r.n,
         total |-> IF r.count = 2 THEN r.total ELSE 0]

\* The store calls of writeTrackTag(fcc, value) and writeDiskTag(fcc, value).
writeTrackTagCalls(value) ==
    LET p == ParseFraction(value)
    IN  IF p.write THEN <<Call("SetMetadataTrack", 0, <<p.n, p.total>>)>> ELSE <<>>

writeDiskTagCalls(value) ==
    LET p == ParseFraction(value)
    IN  IF p.write THEN <<Call("SetMetadataDisk", 0, <<p.n, p.total>>)>> ELSE <<>>

\* strutil::normalize_crlf(value, "\r\n"): every line ending becomes CR LF.
RECURSIVE normalize_crlf(_)
normalize_crlf(s) ==
    IF s = <<>> THEN <<>>
    ELSE IF Len(s) >= 2 /\ s[1] = "\r" /\ s[2] = "\n"
    THEN <<"\r", "\n">> \o normalize_crlf(SubSeq(s, 3, Len(s)))
    ELSE IF s[1] \in {"\r", "\n"}
    THEN <<"\r", "\n">> \o normalize_crlf(Tail(s))
    ELSE <<s[1]>> \o normalize_crlf(Tail(s))

writeStringTagCalls(fcc, value) ==
    <<Call("SetMetadataString", 0, <<fcc, normalize_crlf(value)>>)>>

writeShortTag_UnknownAsString(fcc, value) ==
    CASE fcc = "trkn" -> writeTrackTagCalls(value)
      [] fcc = "disk" -> writeDiskTagCalls(value)
      [] OTHER -> writeStringTagCalls(fcc, value)

\* writeShortTag's dispatch, for the codes of its table that the tag
\* dictionaries below give rise to; a code not in the table writes nothing.
writeShortTag(fcc, value) ==
    CASE fcc = "nam" -> writeStringTagCalls(fcc, value)
      [] fcc = "trkn" -> writeTrackTagCalls(value)
      [] fcc = "disk" -> writeDiskTagCalls(value)
      [] OTHER -> <<>>

writeLongTag(key, value) == <<Call("SetMetadataFreeForm", 0, <<key, value>>)>>

\* The values handed to writeTrackTag and writeDiskTag.
MaxValueLen == 4
TagChars == {"1", "2", "/", " ", "-", "x"}
TagValues(n) == UNION { [1..k -> TagChars] : k \in 0..n }

\* One call of writeTrackTag (writeDiskTag) with tag_value; ok tells whether
\* the store call, if one is made, goes through.
RunTagCalls(handler, cs, ok) ==
    /\ sink_pc = "open"
    /\ tag_calls' = tag_calls \cup {handler}
    /\ IF cs = <<>> THEN UNCHANGED <<m_mp4file, mp4_err, sink_pc>>
       ELSE IF ok
       THEN /\ m_mp4file' = Apply(m_mp4file, cs[1])
            /\ UNCHANGED <<mp4_err, sink_pc>>
       ELSE /\ mp4_err' = [op |-> cs[1].op, n |-> 0]
            /\ sink_pc' = "failed"
            /\ UNCHANGED m_mp4file
    /\ UNCHANGED <<tag_value, m_tags, m_chapters, m_artworks, m_gapless_mode,
                   m_edit_start, m_edit_duration, m_closed, ntagwrites,
                   first_write, close_log>>

writeTrackTag(ok) == RunTagCalls("writeTrackTag", writeTrackTagCalls(tag_value), ok)

writeDiskTag(ok) == RunTagCalls("writeDiskTag", writeDiskTagCalls(tag_value), ok)

\* M4A::convertToM4ATags: the dictionary split into the tags with a
\* four-character code and the free-form ones, values unchanged.
\* The key "work" stands for a key whose code writeShortTag's table lacks.
ShortFcc == [title |-> "nam", track |-> "trkn", disk |-> "disk", work |-> "wrk"]
convertToM4ATags(tags) ==
    [shortTags |->
        [fcc \in { ShortFcc[k] : k \in DOMAIN tags \cap DOMAIN ShortFcc } |->
            tags[CHOOSE k \in DOMAIN tags \cap DOMAIN ShortFcc : ShortFcc[k] = fcc]],
     longTags |-> [k \in DOMAIN tags \ DOMAIN ShortFcc |-> tags[k]]]

\* The order std::map gives the codes and the free-form keys modelled here.
ShortOrder == <<"disk", "trkn", "nam", "wrk">>
LongOrder == <<"ENCODER", "iTunSMPB">>

\* writeTags' two tag loops: a tag with an empty value is passed over.
RECURSIVE ShortTagCalls(_, _)
ShortTagCalls(shortTags, i) ==
    IF i > Len(ShortOrder) THEN <<>>
    ELSE (IF ShortOrder[i] \in DOMAIN shortTags /\ Len(shortTags[ShortOrder[i]]) > 0
          THEN writeShortTag(ShortOrder[i], shortTags[ShortOrder[i]]) ELSE <<>>)
         \o ShortTagCalls(shortTags, i + 1)

RECURSIVE LongTagCalls(_, _)
LongTagCalls(longTags, i) ==
    IF i > Len(LongOrder) THEN <<>>
    ELSE (IF LongOrder[i] \in DOMAIN longTags /\ Len(longTags[LongOrder[i]]) > 0
          THEN writeLongTag(LongOrder[i], longTags[LongOrder[i]]) ELSE <<>>)
         \o LongTagCalls(longTags, i + 1)

SumSecs_Flat(chaps, k) == 0

\* The seconds of the first k chapters.
RECURSIVE SumSecs(_, _)
SumSecs(chaps, k) == IF k = 0 THEN 0 ELSE SumSecs(chaps, k - 1) + chaps[k].secs

\* writeTags' chapter block.  AddChapter gets the chapter's length in
\* timescale units.  AddNeroChapter's stamp is (off * 10000000.0 + 0.5) with
\* off = m_edit_start / timeScale + the seconds of the chapters before: the
\* call keeps those seconds as n and <<name, m_edit_start, timeScale>> beside.
ChapterCalls(chaps, timeScale, start) ==
    IF chaps = <<>> THEN <<>>
    ELSE <<Call("AddChapterTextTrack", 1, <<>>)>>
         \o [i \in 1..(2 * Len(chaps)) |->
               LET k == (i + 1) \div 2
               IN  IF i % 2 = 1
                   THEN Call("AddChapter", chaps[k].secs * timeScale, chaps[k].name)
                   ELSE Call("AddNeroChapter", SumSecs(chaps, k - 1),
                             <<chaps[k].name, start, timeScale>>)]

ArtworkCalls(arts) ==
    [i \in 1..Len(arts) |-> Call("SetMetadataArtwork", 0, arts[i])]

\* The store calls of MP4SinkBase::writeTags.
MP4SinkBase_writeTagsCalls(f, tags, chaps, arts, start) ==
    LET m == convertToM4ATags(tags)
    IN  ChapterCalls(chaps, f.timeScale, start)
        \o ShortTagCalls(m.shortTags, 1)
        \o LongTagCalls(m.longTags, 1)
        \o ArtworkCalls(arts)

\* uint32_t(x) as its two 16-bit halves <<high, low>>.
U32(x) == <<(x \div 65536) % 65536, x % 65536>>

\* The iTunSMPB value: m_edit_start and the three uint32_t arguments of the
\* template, in its order.
GaplessTag(duration, start, editDuration) ==
    <<start, U32(duration - start - editDuration),
      U32((editDuration \div 65536) \div 65536), U32(editDuration)>>

\* m_tags after MP4Sink::writeTags' gapless block (m_gapless_mode's bit 1 is
\* MODE_ITUNSMPB, bit 2 MODE_EDTS).
TagsWithGapless(f, tags, mode, start, editDuration) ==
    IF f.nframes # 0 /\ mode % 2 = 1
    THEN Put(tags, "iTunSMPB", GaplessTag(f.duration, start, editDuration))
    ELSE tags

EditCalls(f, mode, start, editDuration) ==
    IF f.nframes # 0 /\ (mode \div 2) % 2 = 1
    THEN <<Call("AddTrackEdit", 0, <<>>),
           Call("SetTrackEditMediaStart", start, <<>>),
           Call("SetTrackEditDuration", editDuration, <<>>),
           Call("CreateAudioSampleGroupDescription", f.nframes, <<>>)>>
    ELSE <<>>

MaxTagWrites == 2

\* MP4Sink::writeTags (with MP4SinkBase::writeTags); any one of its store
\* calls may raise.
MP4Sink_writeTags ==
    /\ sink_pc = "open"
    /\ ~m_closed
    /\ ntagwrites < MaxTagWrites
    /\ LET tags == TagsWithGapless(m_mp4file, m_tags, m_gapless_mode,
                                   m_edit_start, m_edit_duration)
           cs == EditCalls(m_mp4file, m_gapless_mode, m_edit_start, m_edit_duration)
                 \o MP4SinkBase_writeTagsCalls(m_mp4file, tags, m_chapters,
                                               m_artworks, m_edit_start)
       IN  \E throwAt \in 0..Len(cs) :
           LET r == Run(m_mp4file, cs, throwAt)
           IN  /\ m_tags' = tags
               /\ m_mp4file' = r.file
               /\ mp4_err' = r.err
               /\ sink_pc' = IF throwAt = 0 THEN "open" ELSE "failed"
               /\ ntagwrites' = IF throwAt = 0 THEN ntagwrites + 1 ELSE ntagwrites
               /\ first_write' = IF throwAt = 0 /\ ntagwrites = 0
                                 THEN r.file ELSE first_write
    /\ UNCHANGED <<tag_value, tag_calls, m_chapters, m_artworks, m_gapless_mode,
                   m_edit_start, m_edit_duration, m_closed, close_log>>

MaxCloseCalls == 2

CloseFrame ==
    UNCHANGED <<tag_value, tag_calls, m_tags, m_chapters, m_artworks,
                m_gapless_mode, m_edit_start, m_edit_duration, ntagwrites,
                first_write>>

MP4SinkBase_close_FlagOnSuccess(ok) ==
    /\ sink_pc \in {"open", "failed"}
    /\ close_log.calls < MaxCloseCalls
    /\ IF m_closed
       THEN /\ close_log' = [close_log EXCEPT !.calls = @ + 1]
            /\ UNCHANGED <<m_closed, m_mp4file, mp4_err, sink_pc>>
       ELSE /\ close_log' = [calls |-> close_log.calls + 1,
                             invoked |-> close_log.invoked + 1]
            /\ m_closed' = ok
            /\ IF ok
               THEN /\ m_mp4file' = Apply(m_mp4file, Call("Close", 0, <<>>))
                    /\ UNCHANGED <<mp4_err, sink_pc>>
               ELSE /\ mp4_err' = [op |-> "Close", n |-> 0]
                    /\ sink_pc' = "failed"
                    /\ UNCHANGED m_mp4file
    /\ CloseFrame

\* MP4SinkBase::close: ok tells whether the store's Close goes through.
MP4SinkBase_close(ok) ==
    /\ sink_pc \in {"open", "failed"}
    /\ close_log.calls < MaxCloseCalls
    /\ IF m_closed
       THEN /\ close_log' = [close_log EXCEPT !.calls = @ + 1]
            /\ UNCHANGED <<m_closed, m_mp4file, mp4_err, sink_pc>>
       ELSE /\ close_log' = [calls |-> close_log.calls + 1,
                             invoked |-> close_log.invoked + 1]
            /\ m_closed' = TRUE
            /\ IF ok
               THEN /\ m_mp4file' = Apply(m_mp4file, Call("Close", 0, <<>>))
                    /\ UNCHANGED <<mp4_err, sink_pc>>
               ELSE /\ mp4_err' = [op |-> "Close", n |-> 0]
                    /\ sink_pc' = "failed"
                    /\ UNCHANGED m_mp4file
    /\ CloseFrame

\* The tag dictionaries, chapter lists and artwork lists a sink is given.
TagDicts ==
    { <<>>,
      [title |-> <<"T", "\n", "U">>],
      [track |-> <<"3", "/", "1", "2">>],
      [title |-> <<>>, disk |-> <<"1">>],
      [work |-> <<"W">>, title |-> <<"T">>, ENCODER |-> <<"q">>],
      [work |-> <<"W">>, title |-> <<>>, ENCODER |-> <<>>] }
ChapterLists ==
    { <<>>,
      <<[name |-> "one", secs |-> 1]>>,
      <<[name |-> "one", secs |-> 1], [name |-> "two", secs |-> 2]>>,
      <<[name |-> "one", secs |-> 1], [name |-> "two", secs |-> 2],
        [name |-> "three", secs |-> 1]>> }
ArtworkLists == { <<>>, <<"png">>, <<"png", "jpeg">> }

\* The store of an MP4Sink built for 44100 Hz stereo AAC, nframes frames of
\* 1024 samples written to its track.
OpenFile(nframes) ==
    [NewFile EXCEPT !.created = TRUE, !.timeScale = tab[5], !.tracks = <<tab[5]>>,
                    !.channels = 2, !.esConfig = <<18, 16>>,
                    !.nframes = nframes, !.duration = nframes * 1024]

TagUnused ==
    /\ tag_value = <<>>
    /\ tag_calls = {}
    /\ m_tags = <<>>
    /\ m_chapters = <<>>
    /\ m_artworks = <<>>
    /\ m_gapless_mode = 1
    /\ m_edit_start = 0
    /\ m_edit_duration = 0
    /\ m_closed = FALSE
    /\ ntagwrites = 0
    /\ first_write = NewFile
    /\ close_log = [calls |-> 0, invoked |-> 0]

(***************************************************************************)
(*                          The specifications                             *)
(***************************************************************************)
FlacUnused ==
    /\ FlacFresh
    /\ m_asbd = NoASBD

\* A FLACSource from its construction on.
FlacInit ==
    /\ FlacFresh
    /\ m_asbd \in UninitASBD
    /\ CookieUnused
    /\ SinkUnused
    /\ AlacUnused
    /\ TagUnused

FlacNext ==
    /\ \/ \E kind \in FileKinds, initOk \in BOOLEAN : FLACSource_Begin(kind, initOk)
       \/ \E si \in StreamInfos : MetadataCallback(si)
       \/ ErrorCallback
       \/ \E ok \in BOOLEAN : FLACSource_Finish(ok)
       \/ \E n \in 1..MaxReq : ReadSamples_Call(n)
       \/ ReadSamples_Loop
       \/ \E h \in FrameHeaders : WriteCallback(h)
       \/ \E ok \in BOOLEAN, state \in DecStates : ProcessSingle_Return(ok, state)
       \/ \E count \in 0..MaxTotal : SkipSamples_Call(count)
       \/ \E ok \in BOOLEAN, state \in DecStates : SkipSamples_Return(ok, state)
    /\ UNCHANGED <<cookieVars, sinkVars, alacVars, tagVars>>

SpecFlac == FlacInit /\ [][FlacNext]_vars

\* The sinks built from a cookie: any cut of any chain of descriptors in
\* SpecCookie, a whole esds around any decoder-specific config in SpecConfig.
CookieInit ==
    /\ FlacUnused
    /\ cookie \in CookieInputs(MaxPieces)
    /\ aac = NoAAC /\ dsc = NoDSC /\ adts = NoADTS
    /\ SinkUnused
    /\ AlacUnused
    /\ TagUnused

ConfigInit ==
    /\ FlacUnused
    /\ cookie \in ConfigCookies
    /\ aac = NoAAC /\ dsc = NoDSC /\ adts = NoADTS
    /\ SinkUnused
    /\ AlacUnused
    /\ TagUnused

CookieNext ==
    \/ ADTSSink_init /\ UNCHANGED <<flacVars, sinkVars, alacVars, tagVars>>
    \/ /\ \E fcc \in {"aac ", "aach"}, createOk \in BOOLEAN, throwAt \in 0..6 :
            MP4Sink_MP4Sink(fcc, createOk, throwAt)
       /\ UNCHANGED <<flacVars, alacVars, tagVars>>

SpecCookie == CookieInit /\ [][CookieNext]_vars

SpecConfig == ConfigInit /\ [][CookieNext]_vars

\* An ALACSink built from a cookie.
ALACInit ==
    /\ FlacUnused
    /\ cookie \in ALACInputs
    /\ aac = NoAAC /\ dsc = NoDSC /\ adts = NoADTS
    /\ SinkUnused
    /\ AlacUnused
    /\ TagUnused

ALACNext ==
    /\ \E createOk \in BOOLEAN, addOk \in BOOLEAN : ALACSink_ALACSink(createOk, addOk)
    /\ UNCHANGED <<flacVars, aac, dsc, adts, tagVars>>

SpecALAC == ALACInit /\ [][ALACNext]_vars

\* The track and disk tag handlers of an open sink, called with one value.
TagInit ==
    /\ FlacUnused
    /\ CookieUnused
    /\ AlacUnused
    /\ sink_pc = "open"
    /\ m_mp4file = OpenFile(0)
    /\ mp4_err = NoErr
    /\ tag_value \in TagValues(MaxValueLen)
    /\ tag_calls = {}
    /\ m_tags = <<>>
    /\ m_chapters = <<>>
    /\ m_artworks = <<>>
    /\ m_gapless_mode = 1
    /\ m_edit_start = 0
    /\ m_edit_duration = 0
    /\ m_closed = FALSE
    /\ ntagwrites = 0
    /\ first_write = NewFile
    /\ close_log = [calls |-> 0, invoked |-> 0]

TagNext ==
    /\ \/ \E ok \in BOOLEAN : writeTrackTag(ok)
       \/ \E ok \in BOOLEAN : writeDiskTag(ok)
    /\ UNCHANGED <<flacVars, cookieVars, alacVars>>

SpecTag == TagInit /\ [][TagNext]_vars

\* An open MP4Sink after its samples were written: writeTags and close.
SinkInit ==
    /\ FlacUnused
    /\ CookieUnused
    /\ AlacUnused
    /\ sink_pc = "open"
    /\ \E nframes \in {0, 3} : m_mp4file = OpenFile(nframes)
    /\ mp4_err = NoErr
    /\ tag_value = <<>>
    /\ tag_calls = {}
    /\ m_tags \in TagDicts
    /\ m_chapters \in ChapterLists
    /\ m_artworks \in ArtworkLists
    /\ m_gapless_mode \in 1..3
    /\ m_edit_start \in {0, 2112}
    /\ m_edit_duration \in {960, 4000}
    /\ m_closed = FALSE
    /\ ntagwrites = 0
    /\ first_write = NewFile
    /\ close_log = [calls |-> 0, invoked |-> 0]

SinkNext ==
    /\ \/ MP4Sink_writeTags
       \/ \E ok \in BOOLEAN : MP4SinkBase_close(ok)
    /\ UNCHANGED <<flacVars, cookieVars, alacVars>>

SpecSink == SinkInit /\ [][SinkNext]_vars

(***************************************************************************)
(* Properties of FLACSource.                                               *)
(***************************************************************************)
FlacOpened == flac_pc \in {"idle", "read_loop", "decoding", "seeking"}
ReadReturned == rs.op = "read" /\ rs.status = "returned"

C2_GiveupMakesEveryReadThrow ==
    rs.op = "read" /\ rs.giveup0 /\ rs.adj > 0 => rs.status # "returned"

\* C3: a frame whose channel count, sample rate or bit depth differs from the
\* stream-wide value is answered with abort, adds nothing to the sample
\* buffer, and the readSamples call that decoded it throws instead of returning.
C3_MismatchingFrameAborts ==
    /\ last_frame.seen /\ ~last_frame.match =>
          last_frame.status = "abort" /\ last_frame.appended = 0
    /\ rs.op = "read" /\ rs.mismatch => rs.status # "returned"

\* C3's case: a readSamples call that decoded a mismatching frame and threw.
C3_Witness ==
    /\ si_seen /\ ~si_bad
    /\ rs.op = "read" /\ rs.mismatch
    /\ rs.status = "threw" /\ rs.err = "process_single"

\* C4, as stated: the constructor succeeds only if a stream info was
\* delivered and every one delivered has sample rate > 0, 1..8 channels and
\* 8..32 bits; and m_asbd holds nothing taken from an invalid stream info.
C4_OpenOnlyWithValidStreamInfo ==
    /\ FlacOpened => si_seen /\ ~si_bad
    /\ \/ m_asbd \in UninitASBD
       \/ /\ m_asbd.mSampleRate > 0
          /\ m_asbd.mChannelsPerFrame \in 1..8
          /\ m_asbd.mBitsPerChannel \in 8..32

(***************************************************************************)
(* Properties of the cookie parsers and of MP4Sink's construction.         *)
(***************************************************************************)
\* C5, as stated: parseMagicCookieAAC walks the descriptor headers left to
\* right; on the first tag-5 header it returns exactly the `size` bytes that
\* follow the header, and for every buffer in which no complete tag-5 header
\* is reached it fails with the format error.
C5_ReturnsTheSizeBytesBehindTag5 ==
    aac.status # "none" =>
        LET w == WalkDescriptors(cookie, 0)
        IN  IF w.status = "found"
            THEN /\ aac.status = "ok"
                 /\ aac.past_end = 0
                 /\ Len(aac.config) = w.size
                 /\ \A i \in 1..w.size :
                       w.p + i <= Len(cookie) /\ aac.config[i] = cookie[w.p + i]
            ELSE aac.status = "error"

\* C6: with b the bytes of the decoder-specific config, the rate index is bits
\* 5..8 (most significant first); for an index in 0..12 the sampling rate is
\* the table's entry and the channel configuration bits 9..12; for index 15
\* the sampling rate is the 24 bits 9..32 and the channel configuration bits
\* 33..36.
C6_RateAndChannelFromTheBits ==
    dsc.status = "ok" =>
        LET b == aac.config
            index == (b[1] % 8) * 2 + (b[2] \div 128)
        IN  /\ dsc.index = index
            /\ index <= 12 =>
                  /\ dsc.rate = <<96000, 88200, 64000, 48000, 44100, 32000, 24000,
                                  22050, 16000, 12000, 11025, 8000, 7350>>[index + 1]
                  /\ dsc.channel_config = (b[2] \div 8) % 16
            /\ index = 15 =>
                  /\ dsc.rate = (b[2] % 128) * 131072 + b[3] * 512 + b[4] * 2
                                + (b[5] \div 128)
                  /\ dsc.channel_config = (b[5] \div 8) % 16

\* C6's case: a config of rate index 15 decoded to the largest 24-bit rate.
C6_Witness ==
    /\ dsc.status = "ok"
    /\ dsc.index = 15
    /\ dsc.rate = 16777215
    /\ dsc.channel_config = 15

\* C7, as stated: for a decoder-specific config of rate index 13 or 14,
\* MP4Sink's construction neither sets the file timescale to 0 nor creates the
\* audio track with sample rate 0 (nor asks the store to).
C7_ReservedRateNeverUsed ==
    sink_pc \in {"open", "failed"} /\ dsc.status = "ok" /\ dsc.index \in {13, 14} =>
        /\ m_mp4file.timeScale # 0
        /\ \A i \in 1..Len(m_mp4file.tracks) : m_mp4file.tracks[i] # 0
        /\ ~(mp4_err.op \in {"SetTimeScale", "AddAudioTrack"} /\ mp4_err.n = 0)

(***************************************************************************)
(* Properties of the ALAC cookie splitter.                                 *)
(***************************************************************************)
AlacParsed == alacsink.status \notin {"none", "failed", "crash"}
HasAt(c, at, m) == at + Len(m) <= Len(c) /\ SubSeq(c, at + 1, at + Len(m)) = m

\* C8, as stated: given exactly 24 bytes the splitter returns them as the
\* config, with an empty channel layout; given 36 bytes with "chan" at bytes
\* [24:28] it returns a config of length 24 and a channel layout of length 12
\* taken from bytes [36:48].
C8_Split24And36 ==
    AlacParsed =>
        /\ Len(cookie) = 24 => alacsink.alac = cookie /\ alacsink.chan = <<>>
        /\ Len(cookie) = 36 /\ HasAt(cookie, 24, Marker_chan) =>
              /\ Len(alacsink.alac) = 24
              /\ Len(alacsink.chan) = 12
              /\ \A i \in 1..12 :
                    36 + i <= Len(cookie) /\ alacsink.chan[i] = cookie[36 + i]

\* C8, amended: for a cookie of at least 12 bytes without "frmaalac" at bytes
\* [4:12]: given exactly 24 bytes the splitter returns them as the config,
\* with an empty channel layout; given 36 bytes it returns the first 24 as the
\* config and an empty channel layout; given at least 48 bytes with "chan" at
\* bytes [28:32] it returns the first 24 as the config and the 12 bytes
\* [36:48] as the channel layout.
C8_Split24And48 ==
    AlacParsed /\ Len(cookie) >= 12 /\ ~HasAt(cookie, 4, Marker_frmaalac) =>
        /\ Len(cookie) = 24 => alacsink.alac = cookie /\ alacsink.chan = <<>>
        /\ Len(cookie) = 36 =>
              alacsink.alac = SubSeq(cookie, 1, 24) /\ alacsink.chan = <<>>
        /\ Len(cookie) >= 48 /\ HasAt(cookie, 28, Marker_chan) =>
              /\ alacsink.alac = SubSeq(cookie, 1, 24)
              /\ alacsink.chan = SubSeq(cookie, 37, 48)

\* C8's case: a sink built from 48 bytes with "chan" at [28:32], its channel
\* layout taken from [36:48].
C8_Witness ==
    /\ alacsink.status = "open"
    /\ Len(cookie) = 48
    /\ HasAt(cookie, 28, Marker_chan)
    /\ ~HasAt(cookie, 4, Marker_frmaalac)
    /\ alacsink.chan = SubSeq(cookie, 37, 48)

(***************************************************************************)
(* Properties of tag writing.                                              *)
(***************************************************************************)
IsNumber(s) == Len(s) > 0 /\ \A i \in 1..Len(s) : IsDigit(s[i])

\* The number a string of digits spells.
RECURSIVE DecimalValue(_)
DecimalValue(s) ==
    IF s = <<>> THEN 0
    ELSE 10 * DecimalValue(SubSeq(s, 1, Len(s) - 1)) + DigitOf(s[Len(s)])

\* Whether s starts with a decimal integer as sscanf reads one: a digit with
\* only blanks, and at most one sign right before it, in front.
HasLeadingInteger(s) ==
    \E k \in 1..Len(s) :
        /\ IsDigit(s[k])
        /\ \A i \in 1..(k - 2) : s[i] = " "
        /\ k > 1 => s[k - 1] \in {" ", "+", "-"}

\* What a handler that was called and met no store error must have left in
\* the store's field for value v.
FractionWritten(v, field) ==
    /\ \A k \in 1..Len(v) :
          /\ v[k] = "/"
          /\ IsNumber(SubSeq(v, 1, k - 1))
          /\ IsNumber(SubSeq(v, k + 1, Len(v)))
          => field = <<DecimalValue(SubSeq(v, 1, k - 1)),
                       DecimalValue(SubSeq(v, k + 1, Len(v)))>>
    /\ IsNumber(v) => field = <<DecimalValue(v), 0>>
    /\ ~HasLeadingInteger(v) => field = <<>>

\* C9: for the track tag and the disk tag, a value "n/total" writes the pair
\* (n, total), a value "n" with no slash writes (n, 0), and a value with no
\* leading decimal integer writes nothing and raises no error.
C9_FractionTagWritesPair ==
    /\ "writeTrackTag" \in tag_calls /\ sink_pc = "open" =>
          FractionWritten(tag_value, m_mp4file.metaTrack)
    /\ "writeDiskTag" \in tag_calls /\ sink_pc = "open" =>
          FractionWritten(tag_value, m_mp4file.metaDisk)
    /\ ~HasLeadingInteger(tag_value) => sink_pc = "open" /\ mp4_err = NoErr

\* C9's case: the track tag written from a value "2" with no slash.
C9_Witness ==
    /\ "writeTrackTag" \in tag_calls
    /\ tag_value = <<"2">>
    /\ m_mp4file.metaTrack = <<2, 0>>

\* C10, as stated: a second writeTags call on the same sink, with the tag
\* dictionary, chapter list, artwork list and gapless state as the first call
\* left them, leaves the container as the first call left it.
C10_WriteTagsIdempotent ==
    ntagwrites >= 2 /\ sink_pc = "open" /\ ~m_closed => m_mp4file = first_write

C12_ChaptersInOrderAfterGapless ==
    [][LET f == m_mp4file
           g == m_mp4file'
           n == Len(m_chapters)
           nc == Len(f.chapters)
           nl == Len(f.neroChapters)
       IN  /\ ntagwrites' = ntagwrites + 1 =>
                /\ g.chapterTracks = f.chapterTracks + (IF n > 0 THEN 1 ELSE 0)
                /\ Len(g.chapters) = nc + n
                /\ Len(g.neroChapters) = nl + n
                /\ SubSeq(g.chapters, 1, nc) = f.chapters
                /\ SubSeq(g.neroChapters, 1, nl) = f.neroChapters
                /\ \A k \in 1..n :
                      /\ g.chapters[nc + k] =
                            [name |-> m_chapters[k].name,
                             duration |-> m_chapters[k].secs * f.timeScale]
                      /\ g.neroChapters[nl + k].at =
                            <<m_chapters[k].name, m_edit_start, f.timeScale>>
                      /\ g.neroChapters[nl + k].secs =
                            IF k = 1 THEN 0
                            ELSE g.neroChapters[nl + k - 1].secs + m_chapters[k - 1].secs
           /\ g.chapterTracks # f.chapterTracks /\ f.nframes # 0 =>
                /\ m_gapless_mode % 2 = 1 => "iTunSMPB" \in DOMAIN m_tags'
                /\ (m_gapless_mode \div 2) % 2 = 1 => Len(g.edits) = Len(f.edits) + 1
      ]_vars

\* C12's case: three chapters written by one call from a sink with a priming
\* delay, the third legacy chapter at the delay plus the first two lengths.
C12_Witness ==
    /\ ntagwrites = 1
    /\ Len(m_chapters) = 3
    /\ m_edit_start = 2112
    /\ Len(m_mp4file.chapters) = 3
    /\ Len(m_mp4file.neroChapters) = 3
    /\ m_mp4file.neroChapters[1].secs = 0
    /\ m_mp4file.neroChapters[3].secs = 3
    /\ m_mp4file.neroChapters[3].at = <<"three", 2112, 44100>>

\* The tags of the dictionary that writeTags should pass over: those with an
\* empty value and the one whose code the handler table lacks.
SkippedTag(k) == Len(m_tags[k]) = 0 \/ k = "work"

\* C13: after a writeTags call that returned, the store holds nothing for a
\* tag whose code is absent from the handler table nor for a tag with an empty
\* value, and holds every other tag of the dictionary; and a call that has
\* only such tags to write (no frames, chapters or artwork) raises no error.
C13_SkippedTagsWriteNothing ==
    /\ ntagwrites >= 1 =>
          /\ DOMAIN m_mp4file.meta \subseteq
                {"nam"} \cup (DOMAIN m_tags \ {"title", "track", "disk", "work"})
          /\ \A k \in DOMAIN m_tags :
                IF SkippedTag(k)
                THEN /\ k = "title" => "nam" \notin DOMAIN m_mp4file.meta
                     /\ k = "track" => m_mp4file.metaTrack = <<>>
                     /\ k = "disk" => m_mp4file.metaDisk = <<>>
                     /\ k \notin DOMAIN m_mp4file.meta
                ELSE /\ k = "title" =>
                           /\ "nam" \in DOMAIN m_mp4file.meta
                           /\ Len(m_mp4file.meta["nam"]) >= Len(m_tags[k])
                     /\ k = "track" /\ HasLeadingInteger(m_tags[k]) =>
                           m_mp4file.metaTrack # <<>>
                     /\ k = "disk" /\ HasLeadingInteger(m_tags[k]) =>
                           m_mp4file.metaDisk # <<>>
                     /\ k \notin {"title", "track", "disk"} =>
                           /\ k \in DOMAIN m_mp4file.meta
                           /\ m_mp4file.meta[k] = m_tags[k]
    /\ /\ \A k \in DOMAIN m_tags : SkippedTag(k)
       /\ m_mp4file.nframes = 0
       /\ m_chapters = <<>>
       /\ m_artworks = <<>>
       => mp4_err.op \in {"none", "Close"}

\* C13's case: a dictionary with a tag of unknown code, written beside a
\* title and a free-form tag that both reached the store.
C13_Witness ==
    /\ ntagwrites >= 1
    /\ DOMAIN m_tags = {"work", "title", "ENCODER"}
    /\ Len(m_tags["work"]) > 0
    /\ m_mp4file.meta = [nam |-> <<"T">>, ENCODER |-> <<"q">>]

\* C14: after any sequence of close() calls on one sink the store's Close
\* has been invoked at most once, also when that one raised an error: a close()
\* call on a sink whose closed flag is set does not reach the store.
C14_CloseInvokedAtMostOnce ==
    /\ close_log.invoked <= 1
    /\ m_mp4file.closes <= close_log.invoked
    /\ close_log.calls >= 1 => m_closed /\ close_log.invoked = 1

\* C14's case: the first close() met an error from the store's Close, a
\* second close() was made, and Close was still invoked once only.
C14_Witness ==
    /\ close_log.calls = 2
    /\ close_log.invoked = 1
    /\ mp4_err.op = "Close"
    /\ m_mp4file.closes = 0

\* C15, as stated: for every cookie the AAC descriptor walk reads and copies
\* no byte outside the buffer: it ends with the config or with the format
\* error, never by running over the buffer's end, and a tag-5 header that
\* declares more bytes than are left ends in the format error.
C15_WalkStaysInsideBuffer ==
    aac.status # "none" =>
        /\ aac.status \in {"ok", "error"}
        /\ aac.past_end = 0
        /\ LET w == WalkDescriptors(cookie, 0)
           IN  w.status = "found" /\ w.p + w.size > Len(cookie) =>
                  aac.status = "error"

====
